---- MODULE Spec2Model ----
(***************************************************************************)
(* Model of script.js, the controller of the JSON formatter page.          *)
(*                                                                         *)
(* Text is a sequence of UTF-16 code units (integers), as a JavaScript     *)
(* string is.  JSON values are tagged records:                             *)
(*   [t |-> "null"]                                                        *)
(*   [t |-> "bool", b |-> BOOLEAN]                                         *)
(*   [t |-> "num",  inf |-> BOOLEAN, neg |-> BOOLEAN, ds |-> digits,       *)
(*                  n |-> position of the decimal point]                   *)
(*   [t |-> "str",  s |-> code units]                                      *)
(*   [t |-> "arr",  items |-> sequence of values]                          *)
(*   [t |-> "obj",  props |-> sequence of [k |-> key, v |-> value]]        *)
(* so that deep structural equality of two values is plain equality.       *)
(***************************************************************************)
EXTENDS Integers, Sequences, FiniteSets, TLC

(***************************************************************************)
(* Code units the program and the JSON grammar name.                       *)
(***************************************************************************)
Ch == [tab |-> 9, lf |-> 10, cr |-> 13, sp |-> 32, quote |-> 34,
       plus |-> 43, comma |-> 44, minus |-> 45, dot |-> 46, slash |-> 47,
       zero |-> 48, nine |-> 57, colon |-> 58,
       lbracket |-> 91, backslash |-> 92, rbracket |-> 93,
       lbrace |-> 123, rbrace |-> 125]

\* "true", "false", "null" as code units
TrueText  == <<116, 114, 117, 101>>
FalseText == <<102, 97, 108, 115, 101>>
NullText  == <<110, 117, 108, 108>>

\* String.prototype.trim and the regular expression class \s remove the same
\* code units: WhiteSpace and LineTerminator of ECMAScript.
JSWhiteSpace == {9, 10, 11, 12, 13, 32, 160, 5760, 8232, 8233, 8239, 8287,
                 12288, 65279} \cup (8192..8202)

\* JSON.parse skips only these four between tokens.
JSONWhiteSpace == {9, 10, 13, 32}

\* the character class [{}[\],:] of compressJSON
Structural == {123, 125, 91, 93, 44, 58}

IsDigit(c) == c >= 48 /\ c <= 57

IsHex(c) == IsDigit(c) \/ (c >= 97 /\ c <= 102) \/ (c >= 65 /\ c <= 70)

HexVal(c) == IF IsDigit(c) THEN c - 48
             ELSE IF c >= 97 THEN c - 87 ELSE c - 55

(***************************************************************************)
(* String.prototype.trim                                                   *)
(***************************************************************************)
\* index of the first code unit at or after i that trim keeps
RECURSIVE TrimStart(_, _)
TrimStart(s, i) ==
    IF i <= Len(s) /\ s[i] \in JSWhiteSpace THEN TrimStart(s, i + 1) ELSE i

\* index of the last code unit at or before i that trim keeps
RECURSIVE TrimEnd(_, _)
TrimEnd(s, i) ==
    IF i >= 1 /\ s[i] \in JSWhiteSpace THEN TrimEnd(s, i - 1) ELSE i

Trim(s) == SubSeq(s, TrimStart(s, 1), TrimEnd(s, Len(s)))

(***************************************************************************)
(* JSON values                                                             *)
(***************************************************************************)
JNull == [t |-> "null"]

JBool(b) == [t |-> "bool", b |-> b]

JStr(s) == [t |-> "str", s |-> s]

JArr(items) == [t |-> "arr", items |-> items]

JObj(props) == [t |-> "obj", props |-> props]

\* A finite Number: the decimal digits ds (no leading or trailing zero) and
\* n, with value 0.ds * 10^n (ECMAScript Number::toString's k = Len(ds), n).
\* Zero is ds = <<>>, n = 0; JavaScript's -0 and 0 are equal (===) and are
\* one value here.
JNum(neg, ds, n) == [t |-> "num", inf |-> FALSE, neg |-> neg, ds |-> ds, n |-> n]

JInfinity(neg) == [t |-> "num", inf |-> TRUE, neg |-> neg, ds |-> <<>>, n |-> 0]

JZero == JNum(FALSE, <<>>, 0)

\* ToBoolean of a JSON value, as the operator ! applies it
Truthy(v) ==
    CASE v.t = "null" -> FALSE
      [] v.t = "bool" -> v.b
      [] v.t = "num"  -> v # JZero
      [] v.t = "str"  -> v.s # <<>>
      [] OTHER        -> TRUE

(***************************************************************************)
(* Numbers: StringToNumber on a JSON number literal, and Number::toString. *)
(* A literal of at most 15 significant digits in the normal range of a     *)
(* double is held exactly; the digits of a subnormal are kept as written.  *)
(***************************************************************************)
RECURSIVE StripLeadingZeros(_)
StripLeadingZeros(ds) ==
    IF ds # <<>> /\ Head(ds) = 0 THEN StripLeadingZeros(Tail(ds)) ELSE ds

RECURSIVE StripTrailingZeros(_)
StripTrailingZeros(ds) ==
    IF ds # <<>> /\ ds[Len(ds)] = 0
    THEN StripTrailingZeros(SubSeq(ds, 1, Len(ds) - 1)) ELSE ds

\* 0.a < 0.b for digit sequences a, b read as decimal fractions
RECURSIVE FracLess(_, _)
FracLess(a, b) ==
    IF b = <<>> THEN FALSE
    ELSE IF a = <<>> THEN StripLeadingZeros(b) # <<>>
    ELSE IF Head(a) # Head(b) THEN Head(a) < Head(b)
    ELSE FracLess(Tail(a), Tail(b))

\* 2^1024 - 2^970 = 0.17976931348623158079...e309: a literal above it
\* rounds to Infinity
OverflowDigits == <<1,7,9,7,6,9,3,1,3,4,8,6,2,3,1,5,8,0,7,9,3,7,2,8,9>>

\* 2^-1075 = 0.24703282292062327208...e-323: a literal not above it rounds
\* to zero
UnderflowDigits == <<2,4,7,0,3,2,8,2,2,9,2,0,6,2,3,2,7,2,0,8>>

\* the Number a literal with digits `digits` (integer then fraction part)
\* times 10^e10 denotes
MakeNumber(neg, digits, e10) ==
    LET lead == StripLeadingZeros(digits)
        ds   == StripTrailingZeros(lead)
        n    == Len(lead) + e10
    IN  IF ds = <<>> THEN JZero
        ELSE IF n > 309 \/ (n = 309 /\ FracLess(OverflowDigits, ds))
             THEN JInfinity(neg)
        ELSE IF n < -323 \/ (n = -323 /\ ~FracLess(UnderflowDigits, ds))
             THEN JZero
        ELSE JNum(neg, ds, n)

\* decimal digits of a natural number, as code units
RECURSIVE NatToText(_)
NatToText(k) ==
    IF k < 10 THEN <<48 + k>> ELSE NatToText(k \div 10) \o <<48 + (k % 10)>>

DigitsToText(ds) == [i \in 1..Len(ds) |-> 48 + ds[i]]

Zeros(k) == [i \in 1..k |-> 48]

\* Number::toString(x, 10) for a finite non-zero x
NumberToString(v) ==
    LET k == Len(v.ds)
        n == v.n
        sign == IF v.neg THEN <<Ch.minus>> ELSE <<>>
        e == n - 1
        expo == <<101>> \o (IF e < 0 THEN <<Ch.minus>> ELSE <<Ch.plus>>)
                 \o NatToText(IF e < 0 THEN -e ELSE e)
        body ==
            IF k <= n /\ n <= 21 THEN DigitsToText(v.ds) \o Zeros(n - k)
            ELSE IF 0 < n /\ n <= 21
                 THEN DigitsToText(SubSeq(v.ds, 1, n)) \o <<Ch.dot>>
                      \o DigitsToText(SubSeq(v.ds, n + 1, k))
            ELSE IF -6 < n /\ n <= 0
                 THEN <<Ch.zero, Ch.dot>> \o Zeros(-n) \o DigitsToText(v.ds)
            ELSE IF k = 1 THEN DigitsToText(v.ds) \o expo
            ELSE DigitsToText(SubSeq(v.ds, 1, 1)) \o <<Ch.dot>>
                 \o DigitsToText(SubSeq(v.ds, 2, k)) \o expo
    IN  IF v = JZero THEN <<Ch.zero>> ELSE sign \o body

(***************************************************************************)
(* Property order of a JavaScript object: array-index keys first, in       *)
(* ascending numeric order, then the other keys in insertion order.  A     *)
(* repeated key keeps its place and takes the later value.                 *)
(***************************************************************************)
\* 2^32 - 2, the largest array index
MaxIndexText == <<52, 50, 57, 52, 57, 54, 55, 50, 57, 52>>

\* a < b for code unit sequences of equal length
RECURSIVE LexLess(_, _)
LexLess(a, b) ==
    IF a = <<>> THEN FALSE
    ELSE IF Head(a) # Head(b) THEN Head(a) < Head(b)
    ELSE LexLess(Tail(a), Tail(b))

\* numeric order of canonical numeric strings
IndexLess(a, b) == Len(a) < Len(b) \/ (Len(a) = Len(b) /\ LexLess(a, b))

IsArrayIndex(key) ==
    /\ key # <<>>
    /\ \A i \in 1..Len(key) : IsDigit(key[i])
    /\ (key[1] = Ch.zero => Len(key) = 1)
    /\ ~IndexLess(MaxIndexText, key)

\* CreateDataProperty(object, key, v), on the ordered property list
AddProperty(props, key, v) ==
    IF \E i \in 1..Len(props) : props[i].k = key
    THEN [i \in 1..Len(props) |->
             IF props[i].k = key THEN [k |-> key, v |-> v] ELSE props[i]]
    ELSE IF IsArrayIndex(key)
    THEN LET before == Cardinality({i \in 1..Len(props) :
                          IsArrayIndex(props[i].k) /\ IndexLess(props[i].k, key)})
         IN  SubSeq(props, 1, before) \o <<[k |-> key, v |-> v]>>
             \o SubSeq(props, before + 1, Len(props))
    ELSE Append(props, [k |-> key, v |-> v])

(***************************************************************************)
(* JSON.parse: a recursive descent over the code units.  A parse returns   *)
(* [ok |-> TRUE, v |-> value, i |-> index after it] or                     *)
(* [ok |-> FALSE, pos |-> index of the offending code unit].               *)
(***************************************************************************)
Fail(pos) == [ok |-> FALSE, pos |-> pos]

Ok(v, i) == [ok |-> TRUE, v |-> v, i |-> i]

RECURSIVE SkipWS(_, _)
SkipWS(s, i) ==
    IF i <= Len(s) /\ s[i] \in JSONWhiteSpace THEN SkipWS(s, i + 1) ELSE i

\* does s hold the code units lit from index i on
Match(s, i, lit) ==
    i + Len(lit) - 1 <= Len(s) /\ SubSeq(s, i, i + Len(lit) - 1) = lit

\* index after the run of digits that starts at i
RECURSIVE DigitsEnd(_, _)
DigitsEnd(s, i) ==
    IF i <= Len(s) /\ IsDigit(s[i]) THEN DigitsEnd(s, i + 1) ELSE i

DigitsOf(s, from, to) == [i \in 1..(to - from) |-> s[from + i - 1] - 48]

\* value of the exponent digits s[from..to-1]; any exponent beyond 100000
\* overflows or underflows whatever the mantissa of a text that short
RECURSIVE ExponentValue(_, _, _, _)
ExponentValue(s, from, to, acc) ==
    IF from >= to THEN acc
    ELSE LET next == acc * 10 + (s[from] - 48)
         IN  ExponentValue(s, from + 1, to, IF next > 100000 THEN 100000 ELSE next)

\* the escapes \" \\ \/ \b \f \n \r \t
SimpleEscape(c) ==
    CASE c = 34  -> 34
      [] c = 92  -> 92
      [] c = 47  -> 47
      [] c = 98  -> 8
      [] c = 102 -> 12
      [] c = 110 -> 10
      [] c = 114 -> 13
      [] c = 116 -> 9
      [] OTHER   -> -1

RECURSIVE ParseStringBody(_, _, _)
ParseStringBody(s, j, acc) ==
    IF j > Len(s) THEN Fail(j)
    ELSE IF s[j] = Ch.quote THEN Ok(acc, j + 1)
    ELSE IF s[j] = Ch.backslash
    THEN IF j + 1 > Len(s) THEN Fail(j + 1)
         ELSE IF SimpleEscape(s[j + 1]) >= 0
         THEN ParseStringBody(s, j + 2, Append(acc, SimpleEscape(s[j + 1])))
         ELSE IF s[j + 1] = 117
         THEN IF j + 5 <= Len(s) /\ \A d \in 2..5 : IsHex(s[j + d])
              THEN ParseStringBody(s, j + 6,
                       Append(acc, HexVal(s[j + 2]) * 4096 + HexVal(s[j + 3]) * 256
                                   + HexVal(s[j + 4]) * 16 + HexVal(s[j + 5])))
              ELSE Fail(j + 2)
         ELSE Fail(j + 1)
    ELSE IF s[j] < 32 THEN Fail(j)
    ELSE ParseStringBody(s, j + 1, Append(acc, s[j]))

\* a string literal whose opening quote is s[i]
ParseString(s, i) == ParseStringBody(s, i + 1, <<>>)

\* the number literal read up to expEnd, its exponent digits being
\* s[expFrom..expEnd-1]
ParseExponentDigits(s, neg, digits, fracLen, expNeg, expFrom, expEnd) ==
    IF expEnd = expFrom THEN Fail(expEnd)
    ELSE Ok(MakeNumber(neg, digits,
                       (IF expNeg THEN -1 ELSE 1)
                           * ExponentValue(s, expFrom, expEnd, 0) - fracLen),
            expEnd)

\* exp?, the integer and fraction digits ending before s[fracEnd]
ParseExponent(s, neg, digits, fracLen, fracEnd) ==
    IF fracEnd <= Len(s) /\ s[fracEnd] \in {101, 69}
    THEN IF fracEnd + 1 <= Len(s) /\ s[fracEnd + 1] \in {Ch.plus, Ch.minus}
         THEN ParseExponentDigits(s, neg, digits, fracLen,
                                  s[fracEnd + 1] = Ch.minus, fracEnd + 2,
                                  DigitsEnd(s, fracEnd + 2))
         ELSE ParseExponentDigits(s, neg, digits, fracLen, FALSE, fracEnd + 1,
                                  DigitsEnd(s, fracEnd + 1))
    ELSE Ok(MakeNumber(neg, digits, -fracLen), fracEnd)

\* the fraction digits s[intEnd+1..fracEnd-1], then exp?
ParseFractionDigits(s, neg, a, intEnd, fracEnd) ==
    IF fracEnd = intEnd + 1 THEN Fail(fracEnd)
    ELSE ParseExponent(s, neg,
                       DigitsOf(s, a, intEnd) \o DigitsOf(s, intEnd + 1, fracEnd),
                       fracEnd - intEnd - 1, fracEnd)

\* frac? exp?, the integer digits being s[a..intEnd-1]
ParseFraction(s, neg, a, intEnd) ==
    IF intEnd <= Len(s) /\ s[intEnd] = Ch.dot
    THEN ParseFractionDigits(s, neg, a, intEnd, DigitsEnd(s, intEnd + 1))
    ELSE ParseExponent(s, neg, DigitsOf(s, a, intEnd), 0, intEnd)

\* int frac? exp?, s[a] being the code unit after the sign
ParseInteger(s, neg, a) ==
    IF a > Len(s) \/ ~IsDigit(s[a]) THEN Fail(a)
    ELSE ParseFraction(s, neg, a,
                       IF s[a] = Ch.zero THEN a + 1 ELSE DigitsEnd(s, a))

\* a number literal that starts at s[i]: -? int frac? exp?
ParseNumber(s, i) ==
    IF s[i] = Ch.minus THEN ParseInteger(s, TRUE, i + 1)
    ELSE ParseInteger(s, FALSE, i)

RECURSIVE ParseValue(_, _)
RECURSIVE ParseElements(_, _, _)
RECURSIVE ParseMembers(_, _, _)

\* after an element, s[k] being the code unit after the white space
ElementEnd(s, acc, k) ==
    IF k > Len(s) THEN Fail(k)
    ELSE IF s[k] = Ch.comma THEN ParseElements(s, SkipWS(s, k + 1), acc)
    ELSE IF s[k] = Ch.rbracket THEN Ok(JArr(acc), k + 1)
    ELSE Fail(k)

\* an element, r being the parse of its value
Element(s, acc, r) ==
    IF ~r.ok THEN r ELSE ElementEnd(s, Append(acc, r.v), SkipWS(s, r.i))

\* the elements of an array, s[j] being the first code unit of an element
ParseElements(s, j, acc) == Element(s, acc, ParseValue(s, j))

\* after a member, s[k] being the code unit after the white space
MemberEnd(s, acc, k) ==
    IF k > Len(s) THEN Fail(k)
    ELSE IF s[k] = Ch.comma THEN ParseMembers(s, SkipWS(s, k + 1), acc)
    ELSE IF s[k] = Ch.rbrace THEN Ok(JObj(acc), k + 1)
    ELSE Fail(k)

\* a member with key `key`, r being the parse of its value
MemberValue(s, acc, key, r) ==
    IF ~r.ok THEN r
    ELSE MemberEnd(s, AddProperty(acc, key, r.v), SkipWS(s, r.i))

\* a member with key `key`, s[c] being the code unit after the key and the
\* white space
MemberColon(s, acc, key, c) ==
    IF c > Len(s) \/ s[c] # Ch.colon THEN Fail(c)
    ELSE MemberValue(s, acc, key, ParseValue(s, SkipWS(s, c + 1)))

\* a member, key being the parse of its key
MemberKey(s, acc, key) ==
    IF ~key.ok THEN key ELSE MemberColon(s, acc, key.v, SkipWS(s, key.i))

\* the members of an object, s[j] being the first code unit of a key
ParseMembers(s, j, acc) ==
    IF j > Len(s) \/ s[j] # Ch.quote THEN Fail(j)
    ELSE MemberKey(s, acc, ParseString(s, j))

\* the value whose first code unit is s[i]
ParseValue(s, i) ==
    IF i > Len(s) THEN Fail(i)
    ELSE IF s[i] = Ch.lbrace
         THEN LET j == SkipWS(s, i + 1)
              IN  IF j <= Len(s) /\ s[j] = Ch.rbrace THEN Ok(JObj(<<>>), j + 1)
                  ELSE ParseMembers(s, j, <<>>)
    ELSE IF s[i] = Ch.lbracket
         THEN LET j == SkipWS(s, i + 1)
              IN  IF j <= Len(s) /\ s[j] = Ch.rbracket THEN Ok(JArr(<<>>), j + 1)
                  ELSE ParseElements(s, j, <<>>)
    ELSE IF s[i] = Ch.quote
         THEN LET r == ParseString(s, i)
              IN  IF r.ok THEN Ok(JStr(r.v), r.i) ELSE r
    ELSE IF s[i] = Ch.minus \/ IsDigit(s[i]) THEN ParseNumber(s, i)
    ELSE IF Match(s, i, TrueText) THEN Ok(JBool(TRUE), i + 4)
    ELSE IF Match(s, i, FalseText) THEN Ok(JBool(FALSE), i + 5)
    ELSE IF Match(s, i, NullText) THEN Ok(JNull, i + 4)
    ELSE Fail(i)

\* the end of the text: only white space may follow the value parsed
ParseEnd(text, r) ==
    IF ~r.ok THEN r
    ELSE IF SkipWS(text, r.i) <= Len(text) THEN Fail(SkipWS(text, r.i))
    ELSE r

\* JSON.parse(text): the value, or the SyntaxError it throws
JSONParse(text) == ParseEnd(text, ParseValue(text, SkipWS(text, 1)))

(***************************************************************************)
(* JSON.stringify(value, null, gap)                                        *)
(***************************************************************************)
HexDigit(d) == IF d < 10 THEN 48 + d ELSE 87 + d

\* \uXXXX with lower case hexadecimal digits
UnicodeEscape(c) ==
    <<Ch.backslash, 117, HexDigit(c \div 4096), HexDigit((c \div 256) % 16),
      HexDigit((c \div 16) % 16), HexDigit(c % 16)>>

IsHighSurrogate(c) == c >= 55296 /\ c <= 56319

IsLowSurrogate(c) == c >= 56320 /\ c <= 57343

\* the body of QuoteJSONString, from index i on
RECURSIVE QuoteBody(_, _)
QuoteBody(s, i) ==
    IF i > Len(s) THEN <<>>
    ELSE LET c == s[i]
         IN  IF c = 8 THEN <<Ch.backslash, 98>> \o QuoteBody(s, i + 1)
             ELSE IF c = 9 THEN <<Ch.backslash, 116>> \o QuoteBody(s, i + 1)
             ELSE IF c = 10 THEN <<Ch.backslash, 110>> \o QuoteBody(s, i + 1)
             ELSE IF c = 12 THEN <<Ch.backslash, 102>> \o QuoteBody(s, i + 1)
             ELSE IF c = 13 THEN <<Ch.backslash, 114>> \o QuoteBody(s, i + 1)
             ELSE IF c = Ch.quote \/ c = Ch.backslash
                  THEN <<Ch.backslash, c>> \o QuoteBody(s, i + 1)
             ELSE IF c < 32 THEN UnicodeEscape(c) \o QuoteBody(s, i + 1)
             ELSE IF IsHighSurrogate(c) /\ i < Len(s) /\ IsLowSurrogate(s[i + 1])
                  THEN <<c, s[i + 1]>> \o QuoteBody(s, i + 2)
             ELSE IF IsHighSurrogate(c) \/ IsLowSurrogate(c)
                  THEN UnicodeEscape(c) \o QuoteBody(s, i + 1)
             ELSE <<c>> \o QuoteBody(s, i + 1)

QuoteJSONString(s) == <<Ch.quote>> \o QuoteBody(s, 1) \o <<Ch.quote>>

\* the texts parts[from..], separated by sep
RECURSIVE Join(_, _, _)
Join(parts, from, sep) ==
    IF from > Len(parts) THEN <<>>
    ELSE IF from = Len(parts) THEN parts[from]
    ELSE parts[from] \o sep \o Join(parts, from + 1, sep)

\* SerializeJSONProperty with the current indentation indent
RECURSIVE Serialize(_, _, _)
Serialize(v, indent, gap) ==
    LET inner == indent \o gap
        sep   == IF gap = <<>> THEN <<Ch.comma>>
                 ELSE <<Ch.comma, Ch.lf>> \o inner
        Wrap(open, parts, close) ==
            IF parts = <<>> THEN <<open, close>>
            ELSE IF gap = <<>> THEN <<open>> \o Join(parts, 1, sep) \o <<close>>
            ELSE <<open, Ch.lf>> \o inner \o Join(parts, 1, sep)
                 \o <<Ch.lf>> \o indent \o <<close>>
    IN  CASE v.t = "null" -> NullText
          [] v.t = "bool" -> IF v.b THEN TrueText ELSE FalseText
          [] v.t = "num"  -> IF v.inf THEN NullText ELSE NumberToString(v)
          [] v.t = "str"  -> QuoteJSONString(v.s)
          [] v.t = "arr"  ->
                Wrap(Ch.lbracket,
                     [i \in 1..Len(v.items) |-> Serialize(v.items[i], inner, gap)],
                     Ch.rbracket)
          [] v.t = "obj"  ->
                Wrap(Ch.lbrace,
                     [i \in 1..Len(v.props) |->
                         QuoteJSONString(v.props[i].k) \o <<Ch.colon>>
                         \o (IF gap = <<>> THEN <<>> ELSE <<Ch.sp>>)
                         \o Serialize(v.props[i].v, inner, gap)],
                     Ch.rbrace)

\* the gap of a space argument that is the number k
Spaces(k) == [i \in 1..k |-> Ch.sp]

JSONStringify(v, space) == Serialize(v, <<>>, Spaces(space))

(***************************************************************************)
(* analyzeJSON                                                             *)
(***************************************************************************)
\* typeof, on the values JSON.parse returns
TypeOf(v) ==
    CASE v.t \in {"null", "arr", "obj"} -> "object"
      [] v.t = "bool" -> "boolean"
      [] v.t = "num"  -> "number"
      [] v.t = "str"  -> "string"

\* Object.values(obj)
ObjectValues(v) == [i \in 1..Len(v.props) |-> v.props[i].v]

\* traverse(obj), on the counters [objects, arrays] of the enclosing call;
\* forEach(traverse) is the fold of traverse over the elements
RECURSIVE traverse(_, _)
RECURSIVE forEachTraverse(_, _, _)
forEachTraverse(elems, i, counts) ==
    IF i > Len(elems) THEN counts
    ELSE forEachTraverse(elems, i + 1, traverse(elems[i], counts))

\* traverse without the test obj !== null
traverseCountsNull(obj, counts) ==
    IF obj.t = "arr"
    THEN forEachTraverse(obj.items, 1, [counts EXCEPT !.arrays = @ + 1])
    ELSE IF TypeOf(obj) = "object"
    THEN forEachTraverse(IF obj = JNull THEN <<>> ELSE ObjectValues(obj), 1,
                         [counts EXCEPT !.objects = @ + 1])
    ELSE counts

\* traverse without obj.forEach(traverse)
traverseSkipsElements(obj, counts) ==
    IF obj.t = "arr"
    THEN [counts EXCEPT !.arrays = @ + 1]
    ELSE IF obj # JNull /\ TypeOf(obj) = "object"
    THEN forEachTraverse(ObjectValues(obj), 1, [counts EXCEPT !.objects = @ + 1])
    ELSE counts

traverse(obj, counts) ==
    IF obj.t = "arr"
    THEN forEachTraverse(obj.items, 1, [counts EXCEPT !.arrays = @ + 1])
    ELSE IF obj # JNull /\ TypeOf(obj) = "object"
    THEN forEachTraverse(ObjectValues(obj), 1, [counts EXCEPT !.objects = @ + 1])
    ELSE counts

analyzeJSON(data) == traverse(data, [objects |-> 0, arrays |-> 0])

(***************************************************************************)
(* compressJSON's two replacements                                         *)
(***************************************************************************)
\* the concatenation of parts[lo..hi], by halves
RECURSIVE Flatten(_, _, _)
Flatten(parts, lo, hi) ==
    IF lo > hi THEN <<>>
    ELSE IF lo = hi THEN parts[lo]
    ELSE LET mid == (lo + hi) \div 2
         IN  Flatten(parts, lo, mid) \o Flatten(parts, mid + 1, hi)

\* index after the run of \s that holds index i
RECURSIVE SpaceEnd(_, _)
SpaceEnd(s, i) ==
    IF i <= Len(s) /\ s[i] \in JSWhiteSpace THEN SpaceEnd(s, i + 1) ELSE i

\* index before the run of \s that holds index i
RECURSIVE SpaceStart(_, _)
SpaceStart(s, i) ==
    IF i >= 1 /\ s[i] \in JSWhiteSpace THEN SpaceStart(s, i - 1) ELSE i

\* .replace(/\s\s/g, ' ') in the place of .replace(/\s+/g, ' '): a match is
\* two code units of \s
CollapsePairs(s) ==
    Flatten([i \in 1..Len(s) |->
                IF s[i] \notin JSWhiteSpace THEN <<s[i]>>
                ELSE IF (i - SpaceStart(s, i)) % 2 = 0 THEN <<>>
                ELSE IF i < Len(s) /\ s[i + 1] \in JSWhiteSpace THEN <<Ch.sp>>
                ELSE <<s[i]>>],
            1, Len(s))

\* .replace(/\s+/g, ' '): a match is a maximal run of \s, of which the
\* first code unit is replaced by the space and the others by nothing
CollapseWhitespace(s) ==
    Flatten([i \in 1..Len(s) |->
                IF s[i] \notin JSWhiteSpace THEN <<s[i]>>
                ELSE IF i > 1 /\ s[i - 1] \in JSWhiteSpace THEN <<>>
                ELSE <<Ch.sp>>],
            1, Len(s))

\* .replace(/\s*([{}[\],:])\s*/g, '$1'): a match is a structural character
\* with the whole runs of \s before and after it, so a code unit of \s is
\* dropped when its run ends at, or starts after, a structural character
StripAroundStructural(s) ==
    Flatten([i \in 1..Len(s) |->
                IF s[i] \notin JSWhiteSpace THEN <<s[i]>>
                ELSE LET after  == SpaceEnd(s, i)
                         before == SpaceStart(s, i)
                     IN  IF \/ after <= Len(s) /\ s[after] \in Structural
                            \/ before >= 1 /\ s[before] \in Structural
                         THEN <<>> ELSE <<s[i]>>],
            1, Len(s))

\* the expression that computes `compressed` from the trimmed text
CompressText(text) ==
    Trim(StripAroundStructural(CollapseWhitespace(text)))

(***************************************************************************)
(* updateStatistics and formatFileSize                                     *)
(***************************************************************************)
\* new Blob([text]).size, the length of the UTF-8 encoding: 1, 2 or 3 bytes
\* for a code unit (a lone surrogate is encoded as U+FFFD), and 4 bytes for
\* a surrogate pair
BlobSize(s) ==
    LET n == Len(s)
    IN  n + Cardinality({i \in 1..n : s[i] >= 128})
          + Cardinality({i \in 1..n : s[i] >= 2048})
          - 2 * Cardinality({i \in 1..n : /\ IsHighSurrogate(s[i])
                                          /\ i < n
                                          /\ IsLowSurrogate(s[i + 1])})

\* text.split('\n').length for a non-empty text, 0 for the empty one
LineCount(text) ==
    IF text = <<>> THEN 0
    ELSE 1 + Cardinality({i \in 1..Len(text) : text[i] = Ch.lf})

RECURSIVE Pow1024(_)
Pow1024(i) == IF i = 0 THEN 1 ELSE 1024 * Pow1024(i - 1)

\* Math.floor(Math.log(bytes) / Math.log(1024)), for bytes below 1024^3
Log1024(bytes) ==
    IF bytes < 1024 THEN 0 ELSE IF bytes < 1024 * 1024 THEN 1 ELSE 2

\* formatFileSize(bytes): the number shown, in tenths (toFixed(1), of which
\* parseFloat drops a final ".0"), and the unit
formatFileSize(bytes) ==
    IF bytes = 0 THEN [tenths |-> 0, unit |-> "bytes"]
    ELSE LET i == Log1024(bytes)
         IN  [tenths |-> (bytes * 20 + Pow1024(i)) \div (2 * Pow1024(i)),
              unit   |-> <<"bytes", "KB", "MB", "GB">>[i + 1]]

(***************************************************************************)
(* The sample document of loadSampleJSON                                   *)
(***************************************************************************)
sampleJSON ==
  JObj(<<
      [k |-> <<110, 97, 109, 101>>,   \* "name"
       v |-> JStr(<<74, 111, 104, 110, 32, 68, 111, 101>>)],   \* "John Doe"
      [k |-> <<97, 103, 101>>,   \* "age"
       v |-> JNum(FALSE, <<3>>, 2)],
      [k |-> <<101, 109, 97, 105, 108>>,   \* "email"
       v |-> JStr(<<106, 111, 104, 110, 46, 100, 111, 101, 64, 101, 120, 97, 109,
            112, 108, 101, 46, 99, 111, 109>>)],   \* "john.doe@example.com"
      [k |-> <<97, 100, 100, 114, 101, 115, 115>>,   \* "address"
       v |-> JObj(<<
           [k |-> <<115, 116, 114, 101, 101, 116>>,   \* "street"
            v |-> JStr(<<49, 50, 51, 32, 77, 97, 105, 110, 32, 83, 116>>)],   \* "123 Main St"
           [k |-> <<99, 105, 116, 121>>,   \* "city"
            v |-> JStr(<<78, 101, 119, 32, 89, 111, 114, 107>>)],   \* "New York"
           [k |-> <<122, 105, 112, 67, 111, 100, 101>>,   \* "zipCode"
            v |-> JStr(<<49, 48, 48, 48, 49>>)],   \* "10001"
           [k |-> <<99, 111, 117, 110, 116, 114, 121>>,   \* "country"
            v |-> JStr(<<85, 83, 65>>)]   \* "USA"
         >>)],
      [k |-> <<104, 111, 98, 98, 105, 101, 115>>,   \* "hobbies"
       v |-> JArr(<<
           JStr(<<114, 101, 97, 100, 105, 110, 103>>),   \* "reading"
           JStr(<<99, 111, 100, 105, 110, 103>>),   \* "coding"
           JStr(<<116, 114, 97, 118, 101, 108, 105, 110, 103>>),   \* "traveling"
           JStr(<<112, 104, 111, 116, 111, 103, 114, 97, 112, 104, 121>>)   \* "photography"
         >>)],
      [k |-> <<105, 115, 65, 99, 116, 105, 118, 101>>,   \* "isActive"
       v |-> JBool(TRUE)],
      [k |-> <<115, 107, 105, 108, 108, 115>>,   \* "skills"
       v |-> JArr(<<
           JObj(<<
               [k |-> <<110, 97, 109, 101>>,   \* "name"
                v |-> JStr(<<74, 97, 118, 97, 83, 99, 114, 105, 112, 116>>)],   \* "JavaScript"
               [k |-> <<108, 101, 118, 101, 108>>,   \* "level"
                v |-> JStr(<<65, 100, 118, 97, 110, 99, 101, 100>>)]   \* "Advanced"
             >>),
           JObj(<<
               [k |-> <<110, 97, 109, 101>>,   \* "name"
                v |-> JStr(<<80, 121, 116, 104, 111, 110>>)],   \* "Python"
               [k |-> <<108, 101, 118, 101, 108>>,   \* "level"
                v |-> JStr(<<73, 110, 116, 101, 114, 109, 101, 100, 105, 97, 116,
                     101>>)]   \* "Intermediate"
             >>),
           JObj(<<
               [k |-> <<110, 97, 109, 101>>,   \* "name"
                v |-> JStr(<<82, 101, 97, 99, 116>>)],   \* "React"
               [k |-> <<108, 101, 118, 101, 108>>,   \* "level"
                v |-> JStr(<<65, 100, 118, 97, 110, 99, 101, 100>>)]   \* "Advanced"
             >>)
         >>)],
      [k |-> <<115, 111, 99, 105, 97, 108, 77, 101, 100, 105, 97>>,   \* "socialMedia"
       v |-> JObj(<<
           [k |-> <<116, 119, 105, 116, 116, 101, 114>>,   \* "twitter"
            v |-> JStr(<<64, 106, 111, 104, 110, 100, 111, 101>>)],   \* "@johndoe"
           [k |-> <<108, 105, 110, 107, 101, 100, 105, 110>>,   \* "linkedin"
            v |-> JStr(<<108, 105, 110, 107, 101, 100, 105, 110, 46, 99, 111,
                 109, 47, 105, 110, 47, 106, 111, 104, 110, 100, 111,
                 101>>)],   \* "linkedin.com/in/johndoe"
           [k |-> <<103, 105, 116, 104, 117, 98>>,   \* "github"
            v |-> JStr(<<103, 105, 116, 104, 117, 98, 46, 99, 111, 109, 47, 106,
                 111, 104, 110, 100, 111, 101>>)]   \* "github.com/johndoe"
         >>)]
    >>)

(***************************************************************************)
(* Bounds of the model, and the two delays of the program                  *)
(***************************************************************************)
\* timers the host holds pending at once
MaxTimers == 2

\* time that passes in one step of the clock, in milliseconds
TickMs == 1000

\* length of the texts over Alphabet a saved document is drawn from
MaxLen == 3

\* setTimeout(..., 1000): delay of the debounced write, in milliseconds
DebounceMs == 1000

\* setTimeout(..., 3000): delay after which a notification is hidden
NotifyMs == 3000

(***************************************************************************)
(* State                                                                   *)
(***************************************************************************)
VARIABLES
    pc,               \* "loading" until DOMContentLoaded has run, then "ready"
    editorValue,      \* value of the element jsonEditor
    isValidJSON,
    jsonData,
    jsonToolContent,  \* the localStorage entry: [has |-> FALSE] when absent
    editorClass,      \* className of jsonEditor
    errorDisplay,     \* [text, show]
    successDisplay,   \* [text, show]
    jsonStatus,       \* text of the element jsonStatus
    jsonSize,         \* text of the element jsonSize, as formatFileSize gives it
    jsonLines,
    jsonObjects,
    jsonArrays,
    notification,     \* [message, type, show]
    timers,           \* the host's pending timeouts: [id, kind, remaining]
    saveTimeout,      \* id of the timeout the input listener holds, 0 for none
    shownFor,         \* milliseconds since showNotification last ran
    sinceInput,       \* milliseconds since the last input event
    writes,           \* debounced writes since the last input event
    burst,            \* input events of the current burst: each but the first
                      \* came while the write of the one before was pending
    lastOp            \* the handler that ran last: [name, validated]

docVars == <<editorValue, isValidJSON, jsonData, jsonToolContent, editorClass,
             errorDisplay, successDisplay, jsonStatus, jsonSize, jsonLines,
             jsonObjects, jsonArrays>>

vars == <<pc, editorValue, isValidJSON, jsonData, jsonToolContent, editorClass,
          errorDisplay, successDisplay, jsonStatus, jsonSize, jsonLines,
          jsonObjects, jsonArrays, notification, timers, saveTimeout,
          shownFor, sinceInput, writes, burst, lastOp>>

Min(a, b) == IF a < b THEN a ELSE b

Max(a, b) == IF a > b THEN a ELSE b

Op(name, validated) == [name |-> name, validated |-> validated]

Stored(text) == [has |-> TRUE, text |-> text]

(***************************************************************************)
(* The host's timeouts.  An id that is free again may be handed out again; *)
(* the listener's handle is set to 0 when its timeout has run, clearTimeout *)
(* of the id of a timeout that has run being without effect.               *)
(***************************************************************************)
TimerIds == 1..MaxTimers

FreeIds(table) == {i \in TimerIds : \A t \in table : t.id # i}

NewId(table) == CHOOSE i \in FreeIds(table) : \A j \in FreeIds(table) : i <= j

setTimeout(table, id, kind, delay) ==
    table \cup {[id |-> id, kind |-> kind, remaining |-> delay]}

clearTimeout(table, id) == {t \in table : t.id # id}

(***************************************************************************)
(* showNotification(message, type)                                         *)
(***************************************************************************)
showNotification(message, type) ==
    /\ FreeIds(timers) # {}
    /\ notification' = [message |-> message, type |-> type, show |-> TRUE]
    /\ timers' = setTimeout(timers, NewId(timers), "hide", NotifyMs)
    /\ shownFor' = 0
    /\ UNCHANGED saveTimeout

noNotification == UNCHANGED <<notification, timers, shownFor, saveTimeout>>

(***************************************************************************)
(* validateJSON, on the value the editor holds when it runs.  Whether the  *)
(* message of the host's SyntaxError names a line or a position depends    *)
(* on the host and on the error: positioned is either.                     *)
(***************************************************************************)
updateStatistics(text) ==
    /\ jsonSize' = formatFileSize(BlobSize(text))
    /\ jsonLines' = LineCount(text)

updateJSONStatistics(data) ==
    \E stats \in {analyzeJSON(data)} :
        /\ jsonObjects' = stats.objects
        /\ jsonArrays' = stats.arrays

\* saveToLocalStorage that saves a non-empty text only
saveNonEmptyToLocalStorage(text) ==
    IF text = <<>> THEN UNCHANGED jsonToolContent
    ELSE jsonToolContent' = Stored(text)

\* localStorage.setItem('jsonToolContent', text)
saveToLocalStorage(text) == jsonToolContent' = Stored(text)

\* emptyInput without the reset of isValidJSON and jsonData
emptyInputKeepsData ==
    /\ editorClass' = "json-editor"
    /\ errorDisplay' = [errorDisplay EXCEPT !.show = FALSE]
    /\ successDisplay' = [successDisplay EXCEPT !.show = FALSE]
    /\ jsonStatus' = "Ready"
    /\ UNCHANGED <<isValidJSON, jsonData, jsonObjects, jsonArrays>>

\* the branch of validateJSON for an empty text
emptyInput ==
    /\ editorClass' = "json-editor"
    /\ errorDisplay' = [errorDisplay EXCEPT !.show = FALSE]
    /\ successDisplay' = [successDisplay EXCEPT !.show = FALSE]
    /\ jsonStatus' = "Ready"
    /\ isValidJSON' = FALSE
    /\ jsonData' = JNull
    /\ UNCHANGED <<jsonObjects, jsonArrays>>

\* the try block of validateJSON, JSON.parse having returned v
validJSON(v) ==
    /\ jsonData' = v
    /\ isValidJSON' = TRUE
    /\ editorClass' = "json-editor success"
    /\ errorDisplay' = [errorDisplay EXCEPT !.show = FALSE]
    /\ successDisplay' = [text |-> "Valid JSON", show |-> TRUE]
    /\ jsonStatus' = "Valid"
    /\ updateJSONStatistics(v)

\* the catch block of validateJSON
invalidJSON ==
    /\ isValidJSON' = FALSE
    /\ jsonData' = JNull
    /\ editorClass' = "json-editor error"
    /\ successDisplay' = [successDisplay EXCEPT !.show = FALSE]
    /\ \E positioned \in BOOLEAN :
           errorDisplay' = [text |-> IF positioned
                                     THEN "Syntax Error: SyntaxError"
                                     ELSE "Invalid JSON: SyntaxError",
                            show |-> TRUE]
    /\ jsonStatus' = "Invalid"
    /\ UNCHANGED <<jsonObjects, jsonArrays>>

\* what validateJSON reads and parses: text = editor.value.trim() and the
\* outcome of JSON.parse(text)
Validation(value) == [text |-> Trim(value), r |-> JSONParse(Trim(value))]

\* validateJSON from text = editor.value.trim() on
validateText(o) ==
    /\ saveToLocalStorage(o.text)
    /\ updateStatistics(o.text)
    /\ IF o.text = <<>> THEN emptyInput
       ELSE IF o.r.ok THEN validJSON(o.r.v)
       ELSE invalidJSON

validateJSON(value) == \E o \in {Validation(value)} : validateText(o)

(***************************************************************************)
(* Documents the user types or pastes                                      *)
(***************************************************************************)
Docs == {
    <<32>>,                                              \* " "
    <<48>>,                                              \* 0
    <<110, 117, 108, 108>>,                              \* null
    <<49, 101, 57, 57, 57>>,                             \* 1e999
    <<123, 34, 97, 34, 58, 49, 44, 34, 98, 34, 58, 91, 49, 44, 50, 44, 51,
      93, 125>>,                                         \* {"a":1,"b":[1,2,3]}
    <<123, 105, 110, 118, 97, 108, 105, 100>>,           \* {invalid
    <<34, 97, 32, 10, 32, 98, 34>>,                      \* "a \n b"
    <<32, 91, 110, 117, 108, 108, 32, 44, 10, 123, 34, 49, 34, 58, 123, 125,
      125, 93, 10>>                                      \* " [null ,\n{"1":{}}]\n"
}

\* the code units of the short texts: space, line feed, no-break space,
\* [ ] , and 1
Alphabet == {32, 10, 160, 91, 93, 44, 49}

\* every text over Alphabet of at most MaxLen code units
Texts == UNION {[1..n -> Alphabet] : n \in 0..MaxLen}

(***************************************************************************)
(* Handlers                                                                *)
(***************************************************************************)
\* the DOMContentLoaded listener: two runs of validateJSON on one value
\* leave what one run leaves
DOMContentLoaded ==
    /\ pc = "loading"
    /\ pc' = "ready"
    /\ \E value \in {IF jsonToolContent.has /\ jsonToolContent.text # <<>>
                     THEN jsonToolContent.text ELSE editorValue} :
           /\ editorValue' = value
           /\ validateJSON(value)
    /\ noNotification
    /\ UNCHANGED <<sinceInput, writes, burst>>
    /\ lastOp' = Op("DOMContentLoaded", TRUE)

\* the input listener without clearTimeout(saveTimeout)
inputKeepsTimeout(d) ==
    /\ pc = "ready"
    /\ FreeIds(timers) # {}
    /\ saveTimeout' = NewId(timers)
    /\ timers' = setTimeout(timers, NewId(timers), "save", DebounceMs)
    /\ editorValue' = d
    /\ sinceInput' = 0
    /\ writes' = 0
    /\ burst' = IF \E t \in timers : t.kind = "save" THEN Min(burst + 1, 2) ELSE 1
    /\ lastOp' = Op("input", FALSE)
    /\ UNCHANGED <<pc, isValidJSON, jsonData, jsonToolContent, editorClass,
                   errorDisplay, successDisplay, jsonStatus, jsonSize,
                   jsonLines, jsonObjects, jsonArrays, notification, shownFor>>

\* the input listener, after the user has changed the text to d
input(d) ==
    /\ pc = "ready"
    /\ \E cleared \in {clearTimeout(timers, saveTimeout)} :
           /\ FreeIds(cleared) # {}
           /\ saveTimeout' = NewId(cleared)
           /\ timers' = setTimeout(cleared, NewId(cleared), "save", DebounceMs)
    /\ editorValue' = d
    /\ sinceInput' = 0
    /\ writes' = 0
    /\ burst' = IF \E t \in timers : t.kind = "save" THEN Min(burst + 1, 2) ELSE 1
    /\ lastOp' = Op("input", FALSE)
    /\ UNCHANGED <<pc, isValidJSON, jsonData, jsonToolContent, editorClass,
                   errorDisplay, successDisplay, jsonStatus, jsonSize,
                   jsonLines, jsonObjects, jsonArrays, notification, shownFor>>

\* the body shared by formatJSON (space = 2) and minifyJSON (space = 0)
Reserialize(name, space, done) ==
    /\ pc = "ready"
    /\ IF ~isValidJSON \/ ~Truthy(jsonData)
       THEN /\ showNotification("Please enter valid JSON first!", "error")
            /\ UNCHANGED docVars
            /\ lastOp' = Op(name, FALSE)
       ELSE \E text \in {JSONStringify(jsonData, space)} :
                /\ editorValue' = text
                /\ validateJSON(text)
                /\ showNotification(done, "success")
                /\ lastOp' = Op(name, TRUE)
    /\ UNCHANGED <<pc, sinceInput, writes, burst>>

formatJSON == Reserialize("formatJSON", 2, "JSON formatted successfully!")

minifyJSON == Reserialize("minifyJSON", 0, "JSON minified successfully!")

compressJSON ==
    /\ pc = "ready"
    /\ \E text \in {Trim(editorValue)} :
           IF text = <<>>
           THEN /\ showNotification("Please enter some JSON first!", "error")
                /\ UNCHANGED docVars
                /\ lastOp' = Op("compressJSON", FALSE)
           ELSE \E compressed \in {CompressText(text)} :
                /\ editorValue' = compressed
                /\ validateJSON(compressed)
                /\ showNotification("Whitespace removed successfully!", "success")
                /\ lastOp' = Op("compressJSON", TRUE)
    /\ UNCHANGED <<pc, sinceInput, writes, burst>>

\* confirmed: the answer to confirm().  removeItem is followed by the
\* setItem of validateJSON.
clearEditor(confirmed) ==
    /\ pc = "ready"
    /\ IF Trim(editorValue) = <<>>
       THEN /\ showNotification("Editor is already empty!", "error")
            /\ UNCHANGED docVars
            /\ lastOp' = Op("clearEditor", FALSE)
       ELSE IF confirmed
       THEN /\ editorValue' = <<>>
            \* localStorage.removeItem, then setItem in validateJSON
            /\ validateJSON(<<>>)
            /\ showNotification("Editor cleared!", "success")
            /\ lastOp' = Op("clearEditor", TRUE)
       ELSE /\ UNCHANGED docVars
            /\ noNotification
            /\ lastOp' = Op("clearEditor", FALSE)
    /\ UNCHANGED <<pc, sinceInput, writes, burst>>

\* JSON.stringify(sampleJSON, null, 2), the text loadSampleJSON writes
sampleText == JSONStringify(sampleJSON, 2)

\* what validateJSON reads and parses when loadSampleJSON calls it
sampleValidation == Validation(sampleText)

loadSampleJSON ==
    /\ pc = "ready"
    /\ editorValue' = sampleText
    /\ validateText(sampleValidation)
    /\ showNotification("Sample JSON loaded!", "success")
    /\ lastOp' = Op("loadSampleJSON", TRUE)
    /\ UNCHANGED <<pc, sinceInput, writes, burst>>

\* a valid document is reported with alert(), an invalid one is notified
validateAndShowDetails ==
    /\ pc = "ready"
    /\ UNCHANGED editorValue
    /\ validateJSON(editorValue)
    /\ IF isValidJSON'
       THEN noNotification
       ELSE showNotification("Please fix JSON errors first!", "error")
    /\ lastOp' = Op("validateAndShowDetails", TRUE)
    /\ UNCHANGED <<pc, sinceInput, writes, burst>>

\* the callback of a setTimeout of showNotification
hideNotification(t) ==
    /\ t \in timers
    /\ t.kind = "hide"
    /\ t.remaining = 0
    /\ timers' = timers \ {t}
    /\ notification' = [notification EXCEPT !.show = FALSE]
    /\ lastOp' = Op("hideNotification", FALSE)
    /\ UNCHANGED <<pc, docVars, saveTimeout, shownFor, sinceInput, writes, burst>>

\* the callback of the setTimeout of the input listener
saveContent(t) ==
    /\ t \in timers
    /\ t.kind = "save"
    /\ t.remaining = 0
    /\ timers' = timers \ {t}
    /\ saveTimeout' = IF saveTimeout = t.id THEN 0 ELSE saveTimeout
    /\ jsonToolContent' = Stored(editorValue)
    /\ writes' = Min(writes + 1, 2)
    /\ lastOp' = Op("saveContent", FALSE)
    /\ UNCHANGED <<pc, editorValue, isValidJSON, jsonData, editorClass,
                   errorDisplay, successDisplay, jsonStatus, jsonSize,
                   jsonLines, jsonObjects, jsonArrays, notification, shownFor,
                   sinceInput, burst>>

\* TickMs milliseconds pass
Tick ==
    /\ pc = "ready"
    /\ timers' = {[t EXCEPT !.remaining = Max(0, @ - TickMs)] : t \in timers}
    /\ shownFor' = Min(NotifyMs, shownFor + TickMs)
    /\ sinceInput' = Min(DebounceMs, sinceInput + TickMs)
    /\ UNCHANGED <<pc, docVars, notification, saveTimeout, writes, burst, lastOp>>

\* an operation of the user, who types the documents of docs
UserOp(docs) ==
    \/ \E d \in docs : input(d)
    \/ formatJSON
    \/ minifyJSON
    \/ compressJSON
    \/ \E confirmed \in BOOLEAN : clearEditor(confirmed)
    \/ loadSampleJSON
    \/ validateAndShowDetails

TimerFires ==
    \/ \E t \in timers : hideNotification(t)
    \/ \E t \in timers : saveContent(t)

InitWith(saved) ==
    /\ pc = "loading"
    /\ editorValue = <<>>
    /\ isValidJSON = FALSE
    /\ jsonData = JNull
    /\ jsonToolContent \in {[has |-> FALSE]} \cup {Stored(d) : d \in saved}
    /\ editorClass = "json-editor"
    /\ errorDisplay = [text |-> "", show |-> FALSE]
    /\ successDisplay = [text |-> "", show |-> FALSE]
    /\ jsonStatus = "Ready"
    /\ jsonSize = formatFileSize(0)
    /\ jsonLines = 0
    /\ jsonObjects = 0
    /\ jsonArrays = 0
    /\ notification = [message |-> "", type |-> "", show |-> FALSE]
    /\ timers = {}
    /\ saveTimeout = 0
    /\ shownFor = NotifyMs
    /\ sinceInput = DebounceMs
    /\ writes = 0
    /\ burst = 0
    /\ lastOp = Op("load", FALSE)

(***************************************************************************)
(* Spec: the page, opened on a saved document of Docs or Texts, used with  *)
(* the documents of Docs by a user who lets the pending timeouts run       *)
(* before the next operation.                                              *)
(***************************************************************************)
Init == InitWith(Docs \cup Texts)

Next ==
    \/ DOMContentLoaded
    \/ timers = {} /\ UserOp(Docs)
    \/ TimerFires
    \/ (\A t \in timers : t.remaining > 0) /\ timers # {} /\ Tick

Spec == Init /\ [][Next]_vars

(***************************************************************************)
(* SpecTimers: the page opened with nothing saved; input events with the   *)
(* documents of TimerDocs, the operations on them and the timeouts in any  *)
(* order, a timeout running at or after its delay.                         *)
(***************************************************************************)
TimerDocs == {<<49>>, <<32, 49>>}     \* "1", " 1"

InitTimers == InitWith({})

NextTimers ==
    \/ DOMContentLoaded
    \/ \E d \in TimerDocs : input(d)
    \/ formatJSON
    \/ minifyJSON
    \/ compressJSON
    \/ \E confirmed \in BOOLEAN : clearEditor(confirmed)
    \/ validateAndShowDetails
    \/ TimerFires
    \/ Tick

SpecTimers == InitTimers /\ [][NextTimers]_vars

(***************************************************************************)
(* Reference definitions for the properties                                *)
(***************************************************************************)
\* the children of a value
Children(v) ==
    CASE v.t = "arr" -> v.items
      [] v.t = "obj" -> [i \in 1..Len(v.props) |-> v.props[i].v]
      [] OTHER       -> <<>>

\* the paths to the nodes of a value, the root being <<>>
RECURSIVE Paths(_)
Paths(v) ==
    {<<>>} \cup UNION {{<<i>> \o p : p \in Paths(Children(v)[i])} :
                       i \in 1..Len(Children(v))}

\* the node of v at path p
RECURSIVE NodeAt(_, _)
NodeAt(v, p) == IF p = <<>> THEN v ELSE NodeAt(Children(v)[Head(p)], Tail(p))

\* the number of nodes of v of kind t ("arr" or "obj")
NodeCount(v, t) == Cardinality({p \in Paths(v) : NodeAt(v, p).t = t})

\* the outcome of validating the text the editor holds
Outcome(value) ==
    IF Trim(value) = <<>> THEN "Ready"
    ELSE IF JSONParse(Trim(value)).ok THEN "Valid"
    ELSE "Invalid"

SaveTimers == {t \in timers : t.kind = "save"}

(***************************************************************************)
(* Properties                                                              *)
(***************************************************************************)
\* C1: right after a validation pass the outcome shown is that of the
\* current document (Ready for an empty trimmed text, Valid when it parses,
\* Invalid with a message otherwise) and the held state agrees: the flag is
\* set and the held value is the parse of the document exactly when it is
\* Valid, and otherwise the flag is clear and no value is held.
C1_OutcomeMatchesDocument ==
    lastOp.validated =>
        /\ jsonStatus = Outcome(editorValue)
        /\ errorDisplay.show = (jsonStatus = "Invalid")
        /\ jsonStatus = "Invalid" => errorDisplay.text # ""
        /\ successDisplay.show = (jsonStatus = "Valid")
        /\ isValidJSON = (jsonStatus = "Valid")
        /\ jsonData = IF jsonStatus = "Valid"
                      THEN JSONParse(Trim(editorValue)).v ELSE JNull

\* a validation pass that finds a document invalid after a valid one: the
\* counts of the valid one are still shown
C1_Witness ==
    /\ lastOp = Op("validateAndShowDetails", TRUE)
    /\ jsonStatus = "Invalid"
    /\ jsonObjects > 0
    /\ ~isValidJSON

\* C2: formatJSON and minifyJSON, run on a document whose validation held
\* the value v, leave a document that is valid and holds a value equal to v.
C2_RoundTrip ==
    [][(formatJSON \/ minifyJSON) /\ isValidJSON
           => isValidJSON' /\ jsonStatus' = "Valid" /\ jsonData' = jsonData]_vars

\* C3: formatJSON and minifyJSON report "Please enter valid JSON first!" and
\* leave the document as it is exactly when no valid value is held; with a
\* valid value held, of any kind, they write its serialization.
C3_UsageErrorIffNotValid ==
    [][(formatJSON \/ minifyJSON)
           => /\ (notification'.message = "Please enter valid JSON first!")
                  = ~isValidJSON
              /\ ~isValidJSON => UNCHANGED docVars
              /\ isValidJSON =>
                     \/ editorValue' = JSONStringify(jsonData, 2)
                     \/ editorValue' = JSONStringify(jsonData, 0)]_vars

\* C4: the counts analyzeJSON returns for a valid document are the number
\* of object nodes and the number of array nodes of its value, the root
\* included; null and the other scalars count as neither.
C4_AnalyzeCountsNodes ==
    lastOp.validated /\ jsonStatus = "Valid" =>
        /\ jsonObjects = NodeCount(jsonData, "obj")
        /\ jsonArrays = NodeCount(jsonData, "arr")

\* the document {"a":1,"b":[1,2,3]}, validated: one object, one array
C4_Witness ==
    /\ lastOp.validated
    /\ jsonStatus = "Valid"
    /\ Trim(editorValue) = <<123, 34, 97, 34, 58, 49, 44, 34, 98, 34, 58, 91,
                             49, 44, 50, 44, 51, 93, 125>>
    /\ jsonObjects = 1
    /\ jsonArrays = 1

\* C5, as stated: after loadSampleJSON the document is valid, with 3
\* objects and 2 arrays.
C5_SampleCountsAsStated ==
    lastOp.name = "loadSampleJSON" =>
        /\ jsonStatus = "Valid"
        /\ isValidJSON
        /\ jsonObjects = 3
        /\ jsonArrays = 2

\* C5, amended: after loadSampleJSON the document is valid, with 6 objects
\* (the root, address, the three elements of skills, socialMedia) and 2
\* arrays (hobbies, skills).
C5_SampleCounts ==
    lastOp.name = "loadSampleJSON" =>
        /\ jsonStatus = "Valid"
        /\ isValidJSON
        /\ jsonData = sampleJSON
        /\ jsonObjects = 6
        /\ jsonArrays = 2

\* the sample loaded over a document that was invalid
C5_Witness ==
    /\ lastOp.name = "loadSampleJSON"
    /\ errorDisplay.text # ""
    /\ notification.message = "Sample JSON loaded!"

\* C6: compressJSON is idempotent: the text it leaves is the text a second
\* compressJSON would write.
C6_CompressIdempotent ==
    lastOp = Op("compressJSON", TRUE) =>
        /\ Trim(editorValue) # <<>>
        /\ CompressText(Trim(editorValue)) = editorValue

\* the document "a \n b" compressed to "a b"
C6_Witness ==
    /\ lastOp = Op("compressJSON", TRUE)
    /\ editorValue = <<34, 97, 32, 98, 34>>

\* C7: at most one debounced write is pending; it is the one the last input
\* event scheduled, due DebounceMs after that event; and after an input
\* event at most one debounced write happens, not before DebounceMs have
\* passed since.
C7_SingleSlotDebounce ==
    /\ Cardinality(SaveTimers) <= 1
    /\ \A t \in SaveTimers :
           /\ t.id = saveTimeout
           /\ t.remaining = DebounceMs - sinceInput
           /\ writes = 0
    /\ lastOp.name = "input" => SaveTimers # {}
    /\ writes <= 1
    /\ writes = 1 => sinceInput = DebounceMs

\* the one write of a burst of two input events or more
C7_Witness ==
    /\ lastOp.name = "saveContent"
    /\ burst = 2
    /\ writes = 1
    /\ jsonToolContent = Stored(editorValue)

\* C8: a notification that is shown stays shown until a newer one replaces
\* it or NotifyMs have passed since it was shown: it is not hidden earlier.
C8_ShownThreeSeconds ==
    [][notification.show /\ ~notification'.show => shownFor >= NotifyMs]_vars

\* C9, as stated: right after a validation pass the saved entry is the raw
\* text of the editor.
C9_SavedRawText ==
    lastOp.validated => jsonToolContent = Stored(editorValue)

\* C9, amended: right after a validation pass the saved entry is the text
\* of the editor with leading and trailing white space trimmed.
C9_SavedTrimmedText ==
    lastOp.validated => jsonToolContent = Stored(Trim(editorValue))

\* a validation pass on a text with white space around it
C9_Witness ==
    /\ lastOp.validated
    /\ Trim(editorValue) # <<>>
    /\ Trim(editorValue) # editorValue
    /\ jsonToolContent = Stored(Trim(editorValue))

\* C10: right after a validation pass the size and the line count shown are
\* those of the text, and the object and array counts shown are those of
\* the document's value, none being shown for a document that is not valid.
C10_StatsNotStale ==
    lastOp.validated =>
        /\ jsonSize = formatFileSize(BlobSize(Trim(editorValue)))
        /\ jsonLines = LineCount(Trim(editorValue))
        /\ jsonObjects = IF isValidJSON THEN NodeCount(jsonData, "obj") ELSE 0
        /\ jsonArrays = IF isValidJSON THEN NodeCount(jsonData, "arr") ELSE 0

====
